---- MODULE Spec2Model ----
(***************************************************************************)
(* Model of market_alert.py: the pre-market alert runner, its              *)
(* TimeWindowScheduler, the ticker file reader, the quote fetcher and the  *)
(* two notification channels.                                              *)
(*                                                                         *)
(* Time is wall-clock time in whole minutes since 00:00 of the day the     *)
(* process starts.  Every constant the program compares the clock with     *)
(* (schedule entries, the 07:30 cutoff, midnight) lies on a minute         *)
(* boundary, so an instant strictly between two minutes is told apart from *)
(* the minutes around it by no comparison: it behaves like the minute      *)
(* after it, or, when that minute is a schedule entry, like the minute     *)
(* before it.                                                              *)
(*                                                                         *)
(* Strings are tuples of one-character strings, so that parsing,           *)
(* stripping and upper-casing are computed rather than assumed.            *)
(* Optional values (Python None) are tuples of length at most one.         *)
(***************************************************************************)
EXTENDS Integers, Sequences, FiniteSets, TLC

VARIABLES
    now,            \* wall clock, minutes since day 0 00:00
    pc,             \* position of the single thread of control
    error,          \* exception that ended the process, or "none"
    file_path,      \* TickerFileManager.file_path, as typed by the user
    file_exists,    \* os.path.isfile(file_path)
    file_rows,      \* rows of the ticker file (header first)
    run_times,      \* __main__'s run_times (optional list of time strings)
    self_run_times, \* TimeWindowScheduler.run_times (unset until assigned)
    closed,         \* outcome of the cutoff test `now > pre_market_close_today`
    it,             \* number of items the for loop has taken from run_times
    next_run,       \* wait_for_next_window's next_run
    wait_seconds,   \* wait_for_next_window's wait_seconds (in minutes)
    tickers,        \* result of read_tickers in this cycle
    lookups,        \* the provider's answer to each yf lookup of this fetch
    market_data,    \* result of fetch in this cycle
    ticker_data,    \* rows of the alert built in this cycle
    subject,        \* date label of the alert's subject (optional)
    html_body,      \* the alert's body: its count and its rendered rows
    delivery,       \* outcome of the delivery attempt just made
    fired,          \* triggers whose wait has returned, oldest first
    n_compute,      \* calls of get_next_run_time
    n_wait,         \* calls of wait_for_next_window
    n_read,         \* calls of read_tickers
    n_quote,        \* lookups sent to the quote provider
    n_closure_email,\* "hours closed" e-mails handed to EmailAlert.send
    n_closure_sms,  \* "hours closed" texts handed to send_infobip_sms
    n_alert_email   \* alert e-mails handed to EmailAlert.send

vars == <<now, pc, error, file_path, file_exists, file_rows, run_times,
          self_run_times,
          closed, it, next_run, wait_seconds, tickers, lookups, market_data,
          ticker_data, subject, html_body, delivery, fired, n_compute, n_wait,
          n_read,
          n_quote, n_closure_email, n_closure_sms, n_alert_email>>

----------------------------------------------------------------------------
(* Bounds of the model *)

MaxDays == 2          \* idle delays are explored up to the end of this day
ClockStep == 15       \* idle delays end at the multiples of this many minutes
MaxSchedLen == 3      \* longest schedule given to get_next_run_time alone
MaxTickers == 3       \* longest ticker list given to fetch alone
MaxRows == 2          \* most data rows of a file given to read_tickers alone

----------------------------------------------------------------------------
(* Optional values *)

None == <<>>
Some(x) == <<x>>
IsNone(o) == o = <<>>
Val(o) == o[1]

----------------------------------------------------------------------------
(* Calendar arithmetic on minute timestamps *)

MinutesPerDay == 1440

date(t) == t \div MinutesPerDay

midnight(t) == date(t) * MinutesPerDay

time_of_day(t) == t % MinutesPerDay

----------------------------------------------------------------------------
(* datetime.strptime(f"{date} {t}", "%Y-%m-%d %H:%M") on the part after    *)
(* the date.  The blank of the format matches one or more blanks, %H is    *)
(* 2[0-3] | [0-1]\d | \d, %M is [0-5]\d | \d, and text left over after %M  *)
(* is an error.                                                            *)

Digits == {"0", "1", "2", "3", "4", "5", "6", "7", "8", "9"}

DigitVal(c) ==
    CASE c = "0" -> 0 [] c = "1" -> 1 [] c = "2" -> 2 [] c = "3" -> 3
      [] c = "4" -> 4 [] c = "5" -> 5 [] c = "6" -> 6 [] c = "7" -> 7
      [] c = "8" -> 8 [] c = "9" -> 9

RECURSIVE lstrip(_)
lstrip(s) == IF s # <<>> /\ Head(s) = " " THEN lstrip(Tail(s)) ELSE s

ValueError == -1

strptime_HM(t) ==
    LET s == lstrip(t)
        n == Len(s)
        isd(i) == i <= n /\ s[i] \in Digits
        hlen == IF isd(1) /\ isd(2)
                   /\ \/ s[1] = "2" /\ DigitVal(s[2]) <= 3
                      \/ s[1] \in {"0", "1"}
                THEN 2
                ELSE IF isd(1) THEN 1 ELSE 0
        hour == IF hlen = 2 THEN 10 * DigitVal(s[1]) + DigitVal(s[2])
                ELSE DigitVal(s[1])
        m == hlen + 2
        mlen == IF isd(m) /\ isd(m + 1) /\ DigitVal(s[m]) <= 5 THEN 2
                ELSE IF isd(m) THEN 1 ELSE 0
        minute == IF mlen = 2 THEN 10 * DigitVal(s[m]) + DigitVal(s[m + 1])
                  ELSE DigitVal(s[m])
    IN  IF /\ hlen > 0
           /\ hlen + 1 <= n
           /\ s[hlen + 1] = ":"
           /\ mlen > 0
           /\ m + mlen - 1 = n
        THEN 60 * hour + minute
        ELSE ValueError

----------------------------------------------------------------------------
(* TimeWindowScheduler.get_next_run_time *)

today_times(clock, times) ==
    [i \in 1..Len(times) |-> midnight(clock) + strptime_HM(times[i])]

future_times_or_now(clock, times) ==
    SelectSeq(today_times(clock, times), LAMBDA t : t >= clock)

future_times(clock, times) ==
    SelectSeq(today_times(clock, times), LAMBDA t : t > clock)

RECURSIVE min(_)
min(s) ==
    IF Len(s) = 1 THEN s[1]
    ELSE LET r == min(Tail(s)) IN IF r < s[1] THEN r ELSE s[1]

\* the exception get_next_run_time raises on this schedule, or "none"
get_next_run_time_raises(times) ==
    IF \E i \in 1..Len(times) : strptime_HM(times[i]) = ValueError
    THEN "ValueError"
    ELSE IF times = <<>> THEN "IndexError" ELSE "none"

get_next_run_time_day_after(clock, times) ==
    IF future_times(clock, times) # <<>>
    THEN min(future_times(clock, times))
    ELSE midnight(clock + 2 * MinutesPerDay) + strptime_HM(times[1])

get_next_run_time_same_day(clock, times) ==
    IF future_times(clock, times) # <<>>
    THEN min(future_times(clock, times))
    ELSE midnight(clock) + strptime_HM(times[1])

get_next_run_time(clock, times) ==
    IF future_times(clock, times) # <<>>
    THEN min(future_times(clock, times))
    ELSE midnight(clock + MinutesPerDay) + strptime_HM(times[1])

----------------------------------------------------------------------------
(* MarketDataFetcher.fetch: one lookup per list item, in list order.  A    *)
(* lookup either raises, or returns info.get("preMarketPrice"): a price    *)
(* or None.                                                                *)

Raised == [exc |-> TRUE, price |-> None]
Returned(p) == [exc |-> FALSE, price |-> p]

Put(d, k, v) == [x \in (DOMAIN d) \cup {k} |-> IF x = k THEN v ELSE d[x]]

RECURSIVE fetch_from_aborting(_, _, _)
fetch_from_aborting(ticker_list, answers, data) ==
    IF ticker_list = <<>> THEN data
    ELSE LET ticker == Head(ticker_list)[1]
             a == Head(answers)
         IN  IF a.exc THEN data
             ELSE fetch_from_aborting(Tail(ticker_list), Tail(answers),
                                      Put(data, ticker, a.price))

RECURSIVE fetch_from(_, _, _)
fetch_from(ticker_list, answers, data) ==
    IF ticker_list = <<>> THEN data
    ELSE LET ticker == Head(ticker_list)[1]
             a == Head(answers)
         IN  fetch_from(Tail(ticker_list), Tail(answers),
                        Put(data, ticker, IF a.exc THEN None ELSE a.price))

fetch(ticker_list, answers) == fetch_from(ticker_list, answers, <<>>)

----------------------------------------------------------------------------
(* TickerFileManager.read_tickers on the rows csv.reader yields *)

RECURSIVE rstrip(_)
rstrip(s) ==
    IF s # <<>> /\ s[Len(s)] = " " THEN rstrip(SubSeq(s, 1, Len(s) - 1)) ELSE s

strip(s) == rstrip(lstrip(s))

upper_char(c) ==
    CASE c = "a" -> "A" [] c = "b" -> "B" [] c = "c" -> "C" [] c = "d" -> "D"
      [] c = "e" -> "E" [] c = "f" -> "F" [] c = "g" -> "G" [] c = "h" -> "H"
      [] c = "i" -> "I" [] c = "j" -> "J" [] c = "k" -> "K" [] c = "l" -> "L"
      [] c = "m" -> "M" [] c = "n" -> "N" [] c = "o" -> "O" [] c = "p" -> "P"
      [] c = "q" -> "Q" [] c = "r" -> "R" [] c = "s" -> "S" [] c = "t" -> "T"
      [] c = "u" -> "U" [] c = "v" -> "V" [] c = "w" -> "W" [] c = "x" -> "X"
      [] c = "y" -> "Y" [] c = "z" -> "Z" [] OTHER -> c

upper(s) == [i \in 1..Len(s) |-> upper_char(s[i])]

----------------------------------------------------------------------------
(* TickerFileManager.validate_file *)

lower_char(c) ==
    CASE c = "A" -> "a" [] c = "B" -> "b" [] c = "C" -> "c" [] c = "D" -> "d"
      [] c = "E" -> "e" [] c = "F" -> "f" [] c = "G" -> "g" [] c = "H" -> "h"
      [] c = "I" -> "i" [] c = "J" -> "j" [] c = "K" -> "k" [] c = "L" -> "l"
      [] c = "M" -> "m" [] c = "N" -> "n" [] c = "O" -> "o" [] c = "P" -> "p"
      [] c = "Q" -> "q" [] c = "R" -> "r" [] c = "S" -> "s" [] c = "T" -> "t"
      [] c = "U" -> "u" [] c = "V" -> "v" [] c = "W" -> "w" [] c = "X" -> "x"
      [] c = "Y" -> "y" [] c = "Z" -> "z" [] OTHER -> c

lower(s) == [i \in 1..Len(s) |-> lower_char(s[i])]

endswith(s, suffix) ==
    /\ Len(s) >= Len(suffix)
    /\ SubSeq(s, Len(s) - Len(suffix) + 1, Len(s)) = suffix

validate_exists_only(path, exists) == path # <<>> /\ exists

\* lines 206-214: False unless the path is non-empty, names a file and ends
\* in .csv whatever its case; nothing is raised
validate(path, exists) ==
    IF path = <<>> \/ ~exists THEN FALSE
    ELSE IF ~endswith(lower(path), <<".", "c", "s", "v">>) THEN FALSE
    ELSE TRUE

RECURSIVE read_rows_keeping_empty(_)
read_rows_keeping_empty(rows) ==
    IF rows = <<>> THEN <<>>
    ELSE LET row == Head(rows)
         IN  IF row # <<>>
             THEN <<<<upper(strip(row[1])),
                      IF Len(row) > 1 THEN strip(row[2]) ELSE <<>>>>>>
                  \o read_rows_keeping_empty(Tail(rows))
             ELSE read_rows_keeping_empty(Tail(rows))

RECURSIVE read_rows(_)
read_rows(rows) ==
    IF rows = <<>> THEN <<>>
    ELSE LET row == Head(rows)
         IN  IF row # <<>> /\ strip(row[1]) # <<>>
             THEN <<<<upper(strip(row[1])),
                      IF Len(row) > 1 THEN strip(row[2]) ELSE <<>>>>>>
                  \o read_rows(Tail(rows))
             ELSE read_rows(Tail(rows))

read_tickers(rows) == IF rows = <<>> THEN <<>> ELSE read_rows(Tail(rows))

----------------------------------------------------------------------------
(* __main__: building the alert (lines 316-324)                            *)

get(d, k) == IF k \in DOMAIN d THEN d[k] ELSE None

build_ticker_data_reversed(ticker_list, data) ==
    [i \in 1..Len(ticker_list) |->
        LET t == ticker_list[Len(ticker_list) + 1 - i]
        IN  <<t[1], t[2], get(data, t[1])>>]

build_ticker_data(ticker_list, data) ==
    [i \in 1..Len(ticker_list) |->
        <<ticker_list[i][1], ticker_list[i][2], get(data, ticker_list[i][1])>>]

NA == <<"N", "/", "A">>

build_html_body_dropping_absent(rows, count) ==
    [count |-> count,
     rows  |-> SelectSeq(rows, LAMBDA r : ~IsNone(r[3]))]

build_html_body(rows, count) ==
    [count |-> count,
     rows  |-> [i \in 1..Len(rows) |->
                   <<rows[i][1], rows[i][2],
                     IF IsNone(rows[i][3]) THEN NA ELSE rows[i][3]>>]]

----------------------------------------------------------------------------
(* Configuration and inputs *)

t600 == <<"6", ":", "0", "0">>
t630 == <<"6", ":", "3", "0">>
t700 == <<"7", ":", "0", "0">>
t2359 == <<"2", "3", ":", "5", "9">>
t660 == <<"6", ":", "6", "0">>          \* not a time of day

DefaultRunTimes == <<t600, t630, t700>>

pre_market_close == 7 * 60 + 30

\* schedules the runner is started with
RunTimesConfigs ==
    {Some(DefaultRunTimes), Some(<<t630>>), Some(<<>>), None,
     Some(<<t600, t660>>)}

PathCSV == <<"t", ".", "C", "S", "V">>
PathTXT == <<"t", ".", "t", "x", "t">>

\* paths the user types at the prompt (stripped by prompt_for_path)
FilePaths == {PathCSV, PathTXT, <<>>}

AAPL == <<"A", "A", "P", "L">>
MSFT == <<"M", "S", "F", "T">>
Header == <<<<"T">>, <<"R">>>>

TickerFiles ==
    {<<Header, <<AAPL, <<"1", "5", "0">>>>, <<MSFT, <<"3", "0", "0">>>>>>,
     <<Header, <<<<" ", "a", "a", "p", "l">>>>, <<<<" ">>, <<"9">>>>, <<>>>>}

Prices == {1512}

Answers == {Raised, Returned(None)} \cup {Returned(Some(p)) : p \in Prices}

AnswerSeqs(n) == [1..n -> Answers]

StartTimes == {k * ClockStep : k \in 0..((MinutesPerDay - 1) \div ClockStep)}

Exited == {"invalid_exit", "exit0", "done"}

Terminated == Exited \cup {"crashed"}

----------------------------------------------------------------------------
(* The process *)

locals == <<tickers, lookups, market_data, ticker_data, subject, html_body>>

counters == <<n_compute, n_wait, n_read, n_quote,
              n_closure_email, n_closure_sms, n_alert_email>>

Init ==
    /\ now \in StartTimes
    /\ pc = "validate"
    /\ error = "none"
    /\ file_path \in FilePaths
    /\ file_exists \in BOOLEAN
    /\ file_rows \in TickerFiles
    /\ run_times \in RunTimesConfigs
    /\ self_run_times = None
    /\ closed = FALSE
    /\ it = 0
    /\ next_run = 0
    /\ wait_seconds = 0
    /\ tickers = <<>>
    /\ lookups = <<>>
    /\ market_data = <<>>
    /\ ticker_data = <<>>
    /\ subject = None
    /\ html_body = None
    /\ delivery = "none"
    /\ fired = <<>>
    /\ n_compute = 0
    /\ n_wait = 0
    /\ n_read = 0
    /\ n_quote = 0
    /\ n_closure_email = 0
    /\ n_closure_sms = 0
    /\ n_alert_email = 0

\* the first instant after t at which an idle delay may end
next_tick(t) == (t \div ClockStep + 1) * ClockStep

\* lines 281-283
validate_file ==
    /\ pc = "validate"
    /\ pc' = IF validate(file_path, file_exists) THEN "cutoff"
             ELSE "invalid_exit"
    /\ UNCHANGED <<now, error, file_path, file_exists, file_rows, run_times,
                   self_run_times, closed, it, next_run, wait_seconds,
                   locals, delivery, fired, counters>>

\* lines 286-291
cutoff_check ==
    /\ pc = "cutoff"
    /\ closed' = (now > midnight(now) + pre_market_close)
    /\ pc' = IF closed' THEN "closure_email" ELSE "construct"
    /\ UNCHANGED <<now, error, file_path, file_exists, file_rows, run_times,
                   self_run_times, it, next_run, wait_seconds,
                   locals, delivery, fired, counters>>

\* EmailAlert.send: every failure of the SMTP conversation is caught
send(ok) == IF ok THEN "ok" ELSE "failed"

\* line 293
closure_email ==
    /\ pc = "closure_email"
    /\ \E ok \in BOOLEAN : delivery' = send(ok)
    /\ n_closure_email' = n_closure_email + 1
    /\ pc' = "closure_sms"
    /\ UNCHANGED <<now, error, file_path, file_exists, file_rows, run_times,
                   self_run_times, closed, it, next_run, wait_seconds,
                   locals, fired, n_compute, n_wait, n_read,
                   n_quote, n_closure_sms, n_alert_email>>

\* line 299: exit(0) ends the process
closure_falls_through == "construct"

after_closure == "exit0"

\* InfobipSmsAlert.send_infobip_sms: requests.post and response.json()
\* are not guarded; an HTTP error status is returned like a success
SmsOutcomes == {"ok", "http_error", "raise"}

send_infobip_sms_raises(outcome) == outcome = "raise"

\* lines 294-299
closure_sms ==
    /\ pc = "closure_sms"
    /\ n_closure_sms' = n_closure_sms + 1
    /\ \E outcome \in SmsOutcomes :
          /\ delivery' = IF outcome = "ok" THEN "ok" ELSE "failed"
          /\ IF send_infobip_sms_raises(outcome)
             THEN pc' = "crashed" /\ error' = "RequestException"
             ELSE pc' = after_closure /\ error' = error
    /\ UNCHANGED <<now, file_path, file_exists, file_rows, run_times,
                   self_run_times, closed, it, next_run, wait_seconds,
                   locals, fired, n_compute, n_wait, n_read,
                   n_quote, n_closure_email, n_alert_email>>

\* TimeWindowScheduler.__init__ (line 305): nothing is parsed or rejected
scheduler_init(arg) == arg

construct ==
    /\ pc = "construct"
    /\ self_run_times' = scheduler_init(run_times)
    /\ pc' = "loop"
    /\ UNCHANGED <<now, error, file_path, file_exists, file_rows, run_times,
                   closed, it, next_run, wait_seconds,
                   locals, delivery, fired, counters>>

for_stops_early(taken, times) == taken + 1 < Len(times)

for_runs_once_more(taken, times) == taken <= Len(times)

\* `for _ in run_times` has another item
for_has_next(taken, times) == taken < Len(times)

\* lines 307 and 335
for_next ==
    /\ pc = "loop"
    /\ IF IsNone(run_times)
       THEN pc' = "crashed" /\ error' = "TypeError" /\ it' = it
       ELSE IF for_has_next(it, Val(run_times))
            THEN pc' = "wait" /\ error' = error /\ it' = it + 1
            ELSE pc' = "done" /\ error' = error /\ it' = it
    /\ delivery' = "none"
    /\ UNCHANGED <<now, file_path, file_exists, file_rows, run_times,
                   self_run_times, closed, next_run, wait_seconds,
                   locals, fired, counters>>

\* lines 308 and 181: wait_for_next_window calls get_next_run_time
wait_get_next_run_time ==
    /\ pc = "wait"
    /\ n_wait' = n_wait + 1
    /\ n_compute' = n_compute + 1
    /\ LET raised == IF IsNone(self_run_times) THEN "AttributeError"
                     ELSE get_next_run_time_raises(Val(self_run_times))
       IN  IF raised # "none"
           THEN pc' = "crashed" /\ error' = raised /\ next_run' = next_run
           ELSE /\ pc' = "wait_seconds"
                /\ error' = error
                /\ next_run' = get_next_run_time(now, Val(self_run_times))
    /\ UNCHANGED <<now, file_path, file_exists, file_rows, run_times,
                   self_run_times, closed, it, wait_seconds,
                   locals, delivery, fired, n_read,
                   n_quote, n_closure_email, n_closure_sms, n_alert_email>>

must_sleep_inverted(seconds) == seconds < 0

must_sleep_when_past(seconds) == seconds # 0

\* line 183
must_sleep(seconds) == seconds > 0

\* lines 182-183
compute_wait_seconds ==
    /\ pc = "wait_seconds"
    /\ wait_seconds' = next_run - now
    /\ pc' = IF must_sleep(wait_seconds') THEN "sleep" ELSE "reached"
    /\ UNCHANGED <<now, error, file_path, file_exists, file_rows, run_times,
                   self_run_times, closed, it, next_run,
                   locals, delivery, fired, counters>>

sleep_wakes_at_once(clock, seconds, extra) == clock

\* time.sleep(secs) returns after at least secs
sleep_wakes(clock, seconds, extra) == clock + seconds + extra

\* line 185
sleep ==
    /\ pc = "sleep"
    /\ \E extra \in {0, next_tick(now + wait_seconds) - (now + wait_seconds)} :
          now' = sleep_wakes(now, wait_seconds, extra)
    /\ pc' = "reached"
    /\ UNCHANGED <<error, file_path, file_exists, file_rows, run_times,
                   self_run_times, closed, it, next_run, wait_seconds,
                   locals, delivery, fired, n_compute, n_wait, n_read,
                   n_quote, n_closure_email, n_closure_sms, n_alert_email>>

\* line 186: the wait returns, and its locals are gone
window_reached_then_build ==
    /\ pc = "reached"
    /\ fired' = Append(fired, next_run)
    /\ next_run' = 0
    /\ wait_seconds' = 0
    /\ pc' = "build"
    /\ UNCHANGED <<now, error, file_path, file_exists, file_rows, run_times,
                   self_run_times, closed, it,
                   locals, delivery, counters>>

window_reached ==
    /\ pc = "reached"
    /\ fired' = Append(fired, next_run)
    /\ next_run' = 0
    /\ wait_seconds' = 0
    /\ pc' = "read"
    /\ UNCHANGED <<now, error, file_path, file_exists, file_rows, run_times,
                   self_run_times, closed, it,
                   locals, delivery, counters>>

\* lines 309-310: open() may raise, nothing catches it
read ==
    /\ pc = "read"
    /\ n_read' = n_read + 1
    /\ \E readable \in BOOLEAN :
          IF readable
          THEN /\ tickers' = read_tickers(file_rows)
               /\ pc' = "fetch"
               /\ error' = error
          ELSE /\ tickers' = tickers
               /\ pc' = "crashed"
               /\ error' = "OSError"
    /\ UNCHANGED <<now, file_path, file_exists, file_rows, run_times,
                   self_run_times, closed, it, next_run, wait_seconds,
                   lookups, market_data, ticker_data, subject, html_body,
                   delivery, fired, n_compute, n_wait,
                   n_quote, n_closure_email, n_closure_sms, n_alert_email>>

\* lines 313-314
fetch_quotes ==
    /\ pc = "fetch"
    /\ \E answers \in AnswerSeqs(Len(tickers)) :
          /\ lookups' = answers
          /\ market_data' = fetch(tickers, answers)
    /\ n_quote' = n_quote + Len(tickers)
    /\ pc' = "build"
    /\ UNCHANGED <<now, error, file_path, file_exists, file_rows, run_times,
                   self_run_times, closed, it, next_run, wait_seconds,
                   tickers, ticker_data, subject, html_body,
                   delivery, fired, n_compute, n_wait, n_read,
                   n_closure_email, n_closure_sms, n_alert_email>>

\* lines 316-324
build ==
    /\ pc = "build"
    /\ subject' = Some(date(now))
    /\ ticker_data' = build_ticker_data(tickers, market_data)
    /\ html_body' = Some(build_html_body(ticker_data', Len(tickers)))
    /\ pc' = "send"
    /\ UNCHANGED <<now, error, file_path, file_exists, file_rows, run_times,
                   self_run_times, closed, it, next_run, wait_seconds,
                   tickers, lookups, market_data,
                   delivery, fired, counters>>

\* lines 328-334; the cycle's locals are dead after the send
send_alert ==
    /\ pc = "send"
    /\ \E ok \in BOOLEAN : delivery' = send(ok)
    /\ n_alert_email' = n_alert_email + 1
    /\ tickers' = <<>>
    /\ lookups' = <<>>
    /\ market_data' = <<>>
    /\ ticker_data' = <<>>
    /\ subject' = None
    /\ html_body' = None
    /\ pc' = "loop"
    /\ UNCHANGED <<now, error, file_path, file_exists, file_rows, run_times,
                   self_run_times, closed, it, next_run, wait_seconds,
                   fired, n_compute, n_wait, n_read,
                   n_quote, n_closure_email, n_closure_sms>>

\* Time passes while the process is descheduled or blocked in a call.  The
\* clock is read at lines 164, 182 and 316 only, so a delay matters at the
\* positions before them: before get_next_run_time, between the two clock
\* readings of wait_for_next_window, and in the lookups of fetch.
DelayPoints == {"wait", "wait_seconds", "fetch"}

delay ==
    /\ pc \in DelayPoints
    /\ next_tick(now) <= MaxDays * MinutesPerDay
    /\ now' = next_tick(now)
    /\ UNCHANGED <<pc, error, file_path, file_exists, file_rows, run_times,
                   self_run_times, closed, it, next_run, wait_seconds,
                   locals, delivery, fired, counters>>

step ==
    \/ validate_file
    \/ cutoff_check
    \/ closure_email
    \/ closure_sms
    \/ construct
    \/ for_next
    \/ wait_get_next_run_time
    \/ compute_wait_seconds
    \/ sleep
    \/ window_reached
    \/ read
    \/ fetch_quotes
    \/ build
    \/ send_alert

Next == step \/ delay

Spec == Init /\ [][Next]_vars

\* the single thread of control keeps running
SpecLive == Spec /\ WF_vars(step)

----------------------------------------------------------------------------
(* get_next_run_time and fetch on their own: the inputs are drawn from     *)
(* bounded sets and the function is applied once.                          *)

t0000 == <<"0", "0", ":", "0", "0">>

TimePool == {t0000, t600, t630, t700, t2359}

AscendingSchedules ==
    {s \in UNION {[1..n -> TimePool] : n \in 1..MaxSchedLen} :
        \A i \in 1..(Len(s) - 1) : strptime_HM(s[i]) < strptime_HM(s[i + 1])}

ClockValues == 0..(2 * MinutesPerDay - 1)

Symbols == {AAPL, MSFT}

TickerLists ==
    UNION {[1..n -> {<<sym, <<"1">>>> : sym \in Symbols}] : n \in 0..MaxTickers}

RowAAPL == <<AAPL, <<"1", "5", "0">>>>
RowLower == <<<<" ", "a", "a", "p", "l", " ">>>>     \* one column
RowNoSymbol == <<<<" ">>, <<"9">>>>                  \* blank symbol
RowEmptyField == <<<<>>, <<"9">>>>                   \* ,9
RowBlank == <<>>                                     \* an empty line

RowPool == {RowAAPL, RowLower, RowNoSymbol, RowEmptyField, RowBlank}

\* an empty file, or a header row and up to MaxRows data rows
RowFiles ==
    {<<>>} \cup
    {<<Header>> \o rows : rows \in UNION {[1..n -> RowPool] : n \in 0..MaxRows}}

InitFn ==
    /\ error = "none"
    /\ file_path = PathCSV
    /\ file_exists = TRUE
    /\ self_run_times = None
    /\ closed = FALSE
    /\ it = 0
    /\ next_run = 0
    /\ wait_seconds = 0
    /\ market_data = <<>>
    /\ ticker_data = <<>>
    /\ subject = None
    /\ html_body = None
    /\ delivery = "none"
    /\ fired = <<>>
    /\ n_compute = 0
    /\ n_wait = 0
    /\ n_read = 0
    /\ n_quote = 0
    /\ n_closure_email = 0
    /\ n_closure_sms = 0
    /\ n_alert_email = 0
    /\ \/ /\ pc = "fn_next_run"
          /\ now \in ClockValues
          /\ run_times \in {Some(s) : s \in AscendingSchedules}
          /\ file_rows = <<>>
          /\ tickers = <<>>
          /\ lookups = <<>>
       \/ /\ pc = "fn_fetch"
          /\ now = 0
          /\ run_times = Some(DefaultRunTimes)
          /\ file_rows = <<>>
          /\ tickers \in TickerLists
          /\ lookups \in AnswerSeqs(Len(tickers))
       \/ /\ pc = "fn_read"
          /\ now = 0
          /\ run_times = Some(DefaultRunTimes)
          /\ file_rows \in RowFiles
          /\ tickers = <<>>
          /\ lookups = <<>>

apply_get_next_run_time ==
    /\ pc = "fn_next_run"
    /\ next_run' = get_next_run_time(now, Val(run_times))
    /\ n_compute' = n_compute + 1
    /\ pc' = "fn_next_run_done"
    /\ UNCHANGED <<now, error, file_path, file_exists, file_rows, run_times,
                   self_run_times, closed, it, wait_seconds,
                   locals, delivery, fired, n_wait, n_read, n_quote,
                   n_closure_email, n_closure_sms, n_alert_email>>

apply_fetch ==
    /\ pc = "fn_fetch"
    /\ market_data' = fetch(tickers, lookups)
    /\ n_quote' = n_quote + Len(tickers)
    /\ pc' = "fn_fetch_done"
    /\ UNCHANGED <<now, error, file_path, file_exists, file_rows, run_times,
                   self_run_times, closed, it, next_run, wait_seconds,
                   tickers, lookups, ticker_data, subject, html_body,
                   delivery, fired, n_compute, n_wait, n_read,
                   n_closure_email, n_closure_sms, n_alert_email>>

apply_read_tickers ==
    /\ pc = "fn_read"
    /\ tickers' = read_tickers(file_rows)
    /\ n_read' = n_read + 1
    /\ pc' = "fn_read_done"
    /\ UNCHANGED <<now, error, file_path, file_exists, file_rows, run_times,
                   self_run_times, closed, it, next_run, wait_seconds,
                   lookups, market_data, ticker_data, subject, html_body,
                   delivery, fired, n_compute, n_wait, n_quote,
                   n_closure_email, n_closure_sms, n_alert_email>>

NextFn == apply_get_next_run_time \/ apply_fetch \/ apply_read_tickers

SpecFn == InitFn /\ [][NextFn]_vars

----------------------------------------------------------------------------
(* Properties *)

\* the time of day each pooled schedule entry stands for, in minutes
MinuteOf(t) ==
    CASE t = t0000 -> 0
      [] t = t600 -> 360
      [] t = t630 -> 390
      [] t = t700 -> 420
      [] t = t2359 -> 1439

Candidates(clock, times) ==
    {date(clock) * 1440 + MinuteOf(times[i]) : i \in 1..Len(times)}

\* C1: for every non-empty ascending schedule and every clock reading,
\* get_next_run_time returns a timestamp strictly after the clock reading:
\* the least of today's schedule timestamps that exceed it, or, when none
\* does, the first schedule entry on the next calendar date.  With
\* 6:00, 6:30, 7:00: at 06:15 it is 06:30 today, at 07:05 it is 06:00
\* tomorrow, and at 06:30 exactly it is 07:00 (an equal entry is not taken).
C1_NextTrigger ==
    pc = "fn_next_run_done" =>
        LET times == Val(run_times)
            later == {c \in Candidates(now, times) : c > now}
        IN  /\ next_run > now
            /\ IF later # {}
               THEN next_run \in later /\ \A c \in later : next_run <= c
               ELSE next_run = (date(now) + 1) * 1440 + MinuteOf(times[1])
            /\ times = DefaultRunTimes =>
                  /\ now = 6 * 60 + 15 => next_run = 6 * 60 + 30
                  /\ now = 7 * 60 + 5 => next_run = 1440 + 6 * 60
                  /\ now = 6 * 60 + 30 => next_run = 7 * 60

C1_Witness ==
    /\ pc = "fn_next_run_done"
    /\ run_times = Some(DefaultRunTimes)
    /\ now = 7 * 60 + 5
    /\ next_run = 1440 + 6 * 60

InLoop == {"wait", "wait_seconds", "sleep", "reached",
           "read", "fetch", "build", "send"}

AfterConstruction == {"loop", "done"} \cup InLoop

ClosurePath == {"closure_email", "closure_sms", "exit0", "crashed"}

\* C2: when the cutoff test finds the clock after 07:30, the loop is never
\* entered (no wait, no ticker read, no quote lookup, no alert), the
\* closure notification goes out exactly once (one e-mail, one text), and
\* the process ends.
C2_CutoffClosure ==
    /\ [](closed =>
            /\ pc \in ClosurePath
            /\ n_wait = 0 /\ n_compute = 0 /\ n_read = 0 /\ n_quote = 0
            /\ n_alert_email = 0
            /\ n_closure_email <= 1 /\ n_closure_sms <= 1)
    /\ (closed ~> (/\ pc \in Terminated
                   /\ n_closure_email = 1
                   /\ n_closure_sms = 1))

C2_Witness ==
    /\ closed
    /\ pc = "exit0"
    /\ now > pre_market_close
    /\ n_closure_email = 1
    /\ n_closure_sms = 1
    /\ n_wait = 0

\* C3: a run that enters the loop takes the schedule's items one by one, in
\* order, and calls wait_for_next_window (get_next_run_time, then the wait)
\* once for each: the calls made so far equal the items taken so far, and
\* the loop ends after exactly len(run_times) of them, whatever the start
\* time and however many midnights pass.
C3_OneWaitPerEntry ==
    (pc \in AfterConstruction /\ ~IsNone(run_times)) =>
        /\ n_wait = n_compute
        /\ it <= Len(Val(run_times))
        /\ pc = "wait" => n_wait = it - 1
        /\ pc \in (InLoop \ {"wait"}) \cup {"loop"} => n_wait = it
        /\ pc = "done" => /\ it = Len(Val(run_times))
                          /\ n_wait = Len(Val(run_times))
                          /\ Len(fired) = Len(Val(run_times))

C3_Witness ==
    /\ pc = "done"
    /\ run_times = Some(DefaultRunTimes)
    /\ n_wait = 3
    /\ n_compute = 3
    /\ date(fired[3]) > date(fired[1])

FiredCount(minute) ==
    Cardinality({i \in 1..Len(fired) : time_of_day(fired[i]) = minute})

\* C4: each configured time of day fires exactly once per day: no (date,
\* entry) pair fires twice, and no entry is left out while another entry
\* fires a second time.
C4_OncePerTrigger ==
    run_times = Some(DefaultRunTimes) =>
        /\ \A i, j \in 1..Len(fired) : i # j => fired[i] # fired[j]
        /\ \A e1, e2 \in {360, 390, 420} :
              ~(FiredCount(e1) >= 2 /\ FiredCount(e2) = 0)

\* C5: every run ends (in an exit, unless an exception ended it first);
\* the loop never makes more than len(run_times) waits, and once the script
\* has ended nothing happens any more: no further wait, read or day.
C5_Termination ==
    /\ <>(pc \in Exited \/ error # "none")
    /\ [](~IsNone(run_times) => n_wait <= Len(Val(run_times)))
    /\ [][(pc \in Exited) =>
             (pc' = pc /\ now' = now /\ n_wait' = n_wait /\ fired' = fired)]_vars

C5_Witness ==
    /\ pc = "done"
    /\ run_times = Some(DefaultRunTimes)
    /\ n_wait = 3
    /\ Len(fired) = 3
    /\ date(now) >= 1

\* C6: no early fire.  When the wait is about to return, and while the
\* cycle reads the tickers, fetches, builds and sends, the clock is at or
\* after the trigger chosen for that cycle, and that cycle's wait has
\* returned.
C6_NoEarlyFire ==
    /\ pc = "reached" => now >= next_run
    /\ pc \in {"read", "fetch", "build", "send"} =>
          /\ Len(fired) = it
          /\ now >= fired[Len(fired)]

C6_Witness ==
    /\ pc = "fetch"
    /\ Len(fired) = 2
    /\ now = fired[2]

\* an entry that is none of the pooled H:MM strings is not a time of day
Malformed(times) == \E i \in 1..Len(times) : times[i] \notin TimePool

\* C7: with an empty or missing schedule the construction of the scheduler
\* fails: the runner never gets past it, neither into a wait nor to the end
\* of the loop.
C7_EmptyScheduleRejected ==
    (IsNone(run_times) \/ Val(run_times) = <<>>) =>
        pc \notin AfterConstruction

\* C8: with a malformed time-of-day string in the schedule the construction
\* of the scheduler fails: the runner never gets past it, and no wait, read,
\* lookup or notification happens before the error.
C8_MalformedRejected ==
    (~IsNone(run_times) /\ Malformed(Val(run_times))) =>
        /\ pc \notin AfterConstruction
        /\ n_wait = 0 /\ n_read = 0 /\ n_quote = 0 /\ n_alert_email = 0

\* C9: a delivery that fails, on either channel, does not end the process:
\* the step in which an e-mail or a text fails is never a crash.
C9_DeliveryFailureCaught ==
    [][(pc \in {"closure_email", "closure_sms", "send"}
        /\ delivery' = "failed") => pc' # "crashed"]_vars

SymbolsOf(ticker_list) == {ticker_list[i][1] : i \in 1..Len(ticker_list)}

LastLookup(ticker_list, sym) ==
    CHOOSE i \in 1..Len(ticker_list) :
        /\ ticker_list[i][1] = sym
        /\ \A j \in (i + 1)..Len(ticker_list) : ticker_list[j][1] # sym

\* C10: fetch returns an entry for every requested symbol; a symbol whose
\* lookup failed (raised, or had no quote) maps to absent, every other
\* symbol maps to the price its lookup returned; a failure never cuts the
\* batch short.  (A symbol listed twice is decided by its last lookup.)
C10_FetchIsolation ==
    pc = "fn_fetch_done" =>
        /\ DOMAIN market_data = SymbolsOf(tickers)
        /\ \A sym \in SymbolsOf(tickers) :
              LET a == lookups[LastLookup(tickers, sym)]
              IN  IF a.exc \/ IsNone(a.price)
                  THEN IsNone(market_data[sym])
                  ELSE market_data[sym] = a.price

C10_Witness ==
    /\ pc = "fn_fetch_done"
    /\ tickers = <<<<AAPL, <<"1">>>>, <<MSFT, <<"1">>>>>>
    /\ lookups = <<Raised, Returned(Some(1512))>>
    /\ market_data[AAPL] = None
    /\ market_data[MSFT] = Some(1512)

\* C11: a cycle that has reached its fetch always goes on to build and send
\* exactly one alert, whatever the quotes are: neither the fetch nor the
\* build ends the cycle or the process, the send step hands one e-mail to
\* the channel, and the body has one row per loaded ticker in which an
\* absent quote reads N/A.
C11_AlertUnconditional ==
    /\ [](pc \in {"fetch", "build", "send"} => n_alert_email = it - 1)
    /\ [](pc = "send" =>
            LET body == Val(html_body)
            IN  /\ Len(body.rows) = Len(tickers)
                /\ \A i \in 1..Len(tickers) :
                      body.rows[i][3] =
                         IF lookups[LastLookup(tickers, tickers[i][1])]
                               \in {Raised, Returned(None)}
                         THEN NA
                         ELSE lookups[LastLookup(tickers, tickers[i][1])].price)
    /\ [][(pc = "fetch") => (pc' \in {"fetch", "build"})]_vars
    /\ [][(pc = "build") => (pc' = "send")]_vars
    /\ [][(pc = "send") =>
             (pc' = "loop" /\ n_alert_email' = n_alert_email + 1)]_vars

C11_Witness ==
    /\ pc = "send"
    /\ Len(tickers) = 2
    /\ \A i \in 1..2 : lookups[i] \in {Raised, Returned(None)}
    /\ \A i \in 1..2 : Val(html_body).rows[i][3] = NA
    /\ n_alert_email = it - 1

\* C12: when validation fails (no such file, or a name that does not end in
\* .csv) validate_file returns False without raising and the script ends at
\* once: no cutoff test, no scheduler, no wait, read, lookup or
\* notification.
C12_InvalidFileExits ==
    (~file_exists \/ file_path \in {PathTXT, <<>>}) =>
        /\ pc \in {"validate", "invalid_exit"}
        /\ error = "none"
        /\ ~closed
        /\ IsNone(self_run_times)
        /\ n_wait = 0 /\ n_compute = 0 /\ n_read = 0 /\ n_quote = 0
        /\ n_closure_email = 0 /\ n_closure_sms = 0 /\ n_alert_email = 0

C12_Witness ==
    /\ pc = "invalid_exit"
    /\ file_exists
    /\ file_path = PathTXT
    /\ n_wait = 0

\* a data row that has fields but no symbol
EmptySymbolRows == {RowNoSymbol, RowEmptyField}

HasEmptySymbolRow(rows) ==
    \E i \in 2..Len(rows) : rows[i] \in EmptySymbolRows

\* the entry each pooled row with a symbol stands for
EntryOf(row) ==
    CASE row = RowAAPL -> <<AAPL, <<"1", "5", "0">>>>
      [] row = RowLower -> <<AAPL, <<>>>>

RECURSIVE ExpectedEntries(_)
ExpectedEntries(rows) ==
    IF rows = <<>> THEN <<>>
    ELSE IF Head(rows) \in {RowAAPL, RowLower}
         THEN <<EntryOf(Head(rows))>> \o ExpectedEntries(Tail(rows))
         ELSE ExpectedEntries(Tail(rows))

C14_ReadFailureAbortsCycleOnly ==
    error = "OSError" => pc # "crashed"

\* the scenario of the specification: AAPL,150 and MSFT,300, a quote of
\* 151.2 for AAPL and none for MSFT
ScenarioFile == <<Header, <<AAPL, <<"1", "5", "0">>>>, <<MSFT, <<"3", "0", "0">>>>>>

ScenarioLookups == <<Returned(Some(1512)), Returned(None)>>

ScenarioRows ==
    <<<<AAPL, <<"1", "5", "0">>, Some(1512)>>, <<MSFT, <<"3", "0", "0">>, None>>>>

\* C15: when a cycle's alert is about to be sent, its count is the number
\* of entries loaded in that cycle and its rows are one (symbol, reference
\* price, quote or absent) row per loaded entry, in file order, the quote
\* being the one this cycle's fetch recorded for the symbol; in the
\* scenario of the specification the count is 2 and the rows are
\* (AAPL,150,151.2) and (MSFT,300,absent).
C15_AlertComposition ==
    pc = "send" =>
        /\ tickers = read_tickers(file_rows)
        /\ Val(html_body).count = Len(tickers)
        /\ Len(ticker_data) = Len(tickers)
        /\ Len(Val(html_body).rows) = Len(tickers)
        /\ \A i \in 1..Len(tickers) :
              /\ ticker_data[i][1] = tickers[i][1]
              /\ ticker_data[i][2] = tickers[i][2]
              /\ ticker_data[i][3] = market_data[tickers[i][1]]
              /\ ticker_data[i][3] =
                    IF lookups[LastLookup(tickers, tickers[i][1])] = Raised
                    THEN None
                    ELSE lookups[LastLookup(tickers, tickers[i][1])].price
              /\ Val(html_body).rows[i][1] = tickers[i][1]
              /\ Val(html_body).rows[i][2] = tickers[i][2]
        /\ (file_rows = ScenarioFile /\ lookups = ScenarioLookups) =>
              /\ Val(html_body).count = 2
              /\ ticker_data = ScenarioRows

C15_Witness ==
    /\ pc = "send"
    /\ file_rows = ScenarioFile
    /\ lookups = ScenarioLookups
    /\ ticker_data = ScenarioRows
    /\ Val(html_body).count = 2

\* the runner's states, as positions of the loop of lines 307-335
Idle == {"loop"}
Waiting == {"wait", "wait_seconds", "sleep", "reached"}
Fetching == {"read", "fetch"}
Notifying == {"build", "send"}
Done == {"done"}

\* C16: the runner only moves Idle -> Waiting -> Fetching -> Notifying ->
\* Idle and finally Idle -> Done (an uncaught exception ends the process
\* from where it is): a fetch is always preceded by this cycle's completed
\* wait, a notification by this cycle's fetch, the fetch of a cycle is over
\* before its notification starts, and Done is entered only from Idle when
\* every schedule entry has had its cycle.
C16_TransitionOrder ==
    /\ [][(pc \in Idle) => (pc' \in Waiting \cup Done \cup {"crashed"})]_vars
    /\ [][(pc \in Waiting) =>
             (pc' \in Waiting \cup Fetching \cup {"crashed"})]_vars
    /\ [][(pc \in Fetching) =>
             (pc' \in Fetching \cup Notifying \cup {"crashed"})]_vars
    /\ [][(pc \in Notifying) => (pc' \in Notifying \cup Idle)]_vars
    /\ [][(pc \in Done) => (pc' \in Done)]_vars
    /\ [][(pc' \in Waiting) => (pc \in Idle \cup Waiting)]_vars
    /\ [][(pc' \in Fetching) => (pc \in Waiting \cup Fetching)]_vars
    /\ [][(pc' \in Notifying) => (pc \in Fetching \cup Notifying)]_vars
    /\ [][(pc' \in Done) =>
             (pc \in Idle \cup Done /\ it = Len(Val(run_times)))]_vars
    /\ [](pc \in Fetching => n_wait = it /\ Len(fired) = it)
    /\ [](pc = "read" => n_read = it - 1 /\ n_alert_email = it - 1)
    /\ [](pc \in {"fetch"} \cup Notifying =>
             n_read = it /\ n_alert_email = it - 1)
    /\ [](pc \in Done => n_read = it /\ n_alert_email = it /\ n_wait = it)

C16_Witness ==
    /\ pc = "send"
    /\ it = 2
    /\ n_wait = 2
    /\ Len(fired) = 2
    /\ n_read = 2
    /\ n_alert_email = 1

\* the schedule entries of today that the clock has already passed
Passed(clock, times) == {c \in Candidates(clock, times) : c <= clock}

\* C17: a run whose first wait finds k >= 1 of today's entries passed still
\* makes one cycle per schedule entry.  Every wait takes the least of
\* today's entries still ahead and, once none is left, the schedule's first
\* entry on the next calendar date (the very first wait does so when all
\* have passed), so the windows missed today are made up on a later date:
\* the last cycle of such a run fires on a later date than its first.
C17_LateStart ==
    /\ [][(pc = "wait" /\ pc' = "wait_seconds") =>
             LET times == Val(run_times)
                 ahead == Candidates(now, times) \ Passed(now, times)
             IN  IF ahead = {}
                 THEN next_run' = (date(now) + 1) * 1440 + MinuteOf(times[1])
                 ELSE next_run' \in ahead /\ \A c \in ahead : next_run' <= c]_vars
    /\ [](pc = "done" => Len(fired) = Len(Val(run_times)))
    /\ [](pc = "done" /\ fired # <<>> =>
             (time_of_day(fired[1]) # MinuteOf(Val(run_times)[1])
                 => date(fired[Len(fired)]) > date(fired[1])))

C17_Witness ==
    /\ pc = "done"
    /\ run_times = Some(DefaultRunTimes)
    /\ fired = <<6 * 60 + 30, 7 * 60, 1440 + 6 * 60>>

\* C18: when the remaining wait is computed and the target is not in the
\* future (wait_seconds <= 0), wait_for_next_window returns at once: it does
\* not sleep, the clock does not move, nothing is raised, and the cycle goes
\* on to read the ticker file.
C18_PastTargetNoWait ==
    /\ [][(pc = "wait_seconds" /\ pc' # pc /\ next_run <= now) =>
             /\ pc' = "reached"
             /\ wait_seconds' = next_run - now
             /\ wait_seconds' <= 0
             /\ now' = now
             /\ error' = "none"]_vars
    /\ [](pc = "sleep" => wait_seconds > 0)
    /\ [][(pc = "reached" /\ wait_seconds <= 0) =>
             (pc' = "read" /\ now' = now /\ error' = "none")]_vars

C18_Witness ==
    /\ pc = "reached"
    /\ now > next_run
    /\ wait_seconds < 0
    /\ error = "none"

\* C19: the trigger timestamps one run fires are strictly increasing,
\* whatever the start time and however long the cycles take: the clock is
\* never behind the trigger fired last, and a trigger being waited for is
\* later than the one fired last.
C19_TriggersIncrease ==
    /\ \A i \in 1..(Len(fired) - 1) : fired[i] < fired[i + 1]
    /\ fired # <<>> =>
          /\ now >= fired[Len(fired)]
          /\ pc \in {"wait_seconds", "sleep", "reached"} =>
                next_run > fired[Len(fired)]

C19_Witness ==
    /\ pc = "read"
    /\ fired = <<6 * 60, 1440 + 6 * 60, 1440 + 6 * 60 + 30>>

\* C20: for every non-empty ascending schedule and every clock reading,
\* the trigger get_next_run_time returns is after the clock reading and at
\* most 24 hours after it, so no single wait is longer than a day.
C20_WithinOneDay ==
    pc = "fn_next_run_done" =>
        /\ now < next_run
        /\ next_run <= now + 24 * 60
        /\ next_run - now \in 1..MinutesPerDay

\* the longest wait: a one-entry schedule read exactly at its entry
C20_Witness ==
    /\ pc = "fn_next_run_done"
    /\ Len(Val(run_times)) = 1
    /\ next_run = now + 24 * 60

====
